---- MODULE Spec2Model ----
(***************************************************************************)
(* A model of html_compressor.py: the byte-budgeted line wrapper           *)
(* (split_line_safely, insert_line_breaks_for_activecore,                  *)
(* check_line_byte_limits) and the compression modes compress_header_only, *)
(* compress_complete, compress_preserve_indent and compress_hybrid.        *)
(*                                                                         *)
(* Text is a sequence of code points, each a one-character string.  The    *)
(* code point written "J" stands for a three-byte code point (such as      *)
(* U+3042); every other code point of the model is one byte in UTF-8.      *)
(* Indices keep Python's convention: Slice(s, a, b) is s[a:b].             *)
(***************************************************************************)
EXTENDS Integers, Sequences, FiniteSets, TLC

VARIABLES
    mode,                   \* which entry point the caller invoked
    pc,                     \* position of the running call
    html,                   \* the document argument
    max_bytes,              \* the budget argument
    original_lines,         \* insert_line_breaks_for_activecore: lines not yet visited
    processed_lines,        \* insert_line_breaks_for_activecore: processed_lines
    line,                   \* split_line_safely: line
    current_start,          \* split_line_safely: current_start
    i,                      \* split_line_safely: i
    in_quote,               \* split_line_safely: in_quote
    quote_char,             \* split_line_safely: quote_char
    last_safe_split_index,  \* split_line_safely: last_safe_split_index
    result_lines,           \* split_line_safely: result_lines
    result,                 \* the value the entry point returned / the local `result`
    pass,                   \* number of wrap calls the caller has started
    prev_result,            \* what the caller kept from the first wrap call
    step                    \* compress_complete: number of rewrite statements executed

vars == <<mode, pc, html, max_bytes, original_lines, processed_lines, line,
          current_start, i, in_quote, quote_char, last_safe_split_index,
          result_lines, result, pass, prev_result, step>>

splitVars == <<line, current_start, i, in_quote, quote_char,
               last_safe_split_index, result_lines>>

----------------------------------------------------------------------------
(* Bounds of the model. *)

MaxDocLen == 5
MaxLineLen == 5
MaxBudget == 3

\* split_line_safely appends forever when it stops advancing; the model stops
\* it after this many segments (more than any advancing run can produce).
MaxSegs == MaxLineLen + 2

----------------------------------------------------------------------------
(* Text primitives. *)

NL == "\n"
WIDE == "J"

Slice(s, a, b) ==
    LET lo == IF a < 0 THEN 0 ELSE a
        hi == IF b > Len(s) THEN Len(s) ELSE b
    IN  IF hi <= lo THEN <<>> ELSE SubSeq(s, lo + 1, hi)

CharBytes(c) == IF c = WIDE THEN 3 ELSE 1

\* len(s.encode('utf-8')): the code points of each encoded width, weighted.
ByteLen(s) ==
    LET count(w) == Cardinality({k \in 1..Len(s) : CharBytes(s[k]) = w})
    IN  count(1) + 2 * count(2) + 3 * count(3) + 4 * count(4)

IsSpace(c) == c \in {" ", "\n", "\t", "\r"}

RECURSIVE Concat(_)
Concat(ss) == IF ss = <<>> THEN <<>> ELSE Head(ss) \o Concat(Tail(ss))

\* str.split(sep) for a one-character separator: always at least one field.
RECURSIVE SplitOn(_, _)
SplitOn(s, sep) ==
    IF \A k \in 1..Len(s) : s[k] # sep THEN <<s>>
    ELSE LET p == CHOOSE k \in 1..Len(s) :
                      s[k] = sep /\ \A j \in 1..(k - 1) : s[j] # sep
         IN  <<Slice(s, 0, p - 1)>> \o SplitOn(Slice(s, p, Len(s)), sep)

\* sep.join(parts) for a one-character separator.
RECURSIVE JoinWith(_, _)
JoinWith(parts, sep) ==
    IF parts = <<>> THEN <<>>
    ELSE IF Len(parts) = 1 THEN parts[1]
    ELSE parts[1] \o <<sep>> \o JoinWith(Tail(parts), sep)

\* str.rstrip()
RStrip(s) ==
    IF \A k \in 1..Len(s) : IsSpace(s[k]) THEN <<>>
    ELSE LET b == CHOOSE k \in 1..Len(s) :
                      ~IsSpace(s[k]) /\ \A j \in (k + 1)..Len(s) : IsSpace(s[j])
         IN  SubSeq(s, 1, b)

\* str.lstrip()
LStrip(s) ==
    IF \A k \in 1..Len(s) : IsSpace(s[k]) THEN <<>>
    ELSE LET a == CHOOSE k \in 1..Len(s) :
                      ~IsSpace(s[k]) /\ \A j \in 1..(k - 1) : IsSpace(s[j])
         IN  SubSeq(s, a, Len(s))

\* str.strip()
Strip(s) == LStrip(RStrip(s))

TextsOver(alphabet, n) == UNION {[1..m -> alphabet] : m \in 0..n}

----------------------------------------------------------------------------
(* The regular expressions of the compression modes, as re.search / re.sub   *)
(* evaluate them.  A pattern is named by a tag; Match gives the length of    *)
(* the match that starts at index p, or -1 when there is none.               *)

At(s, p) == IF 0 <= p /\ p < Len(s) THEN s[p + 1] ELSE ""

\* Number of whitespace characters from index p on (a greedy \s*).
RECURSIVE SpaceRun(_, _)
SpaceRun(s, p) == IF IsSpace(At(s, p)) THEN 1 + SpaceRun(s, p + 1) ELSE 0

\* re.IGNORECASE on the letters the patterns hold.
Lower(c) ==
    CASE c = "H" -> "h" [] c = "E" -> "e" [] c = "A" -> "a" [] c = "D" -> "d"
      [] c = "B" -> "b" [] c = "O" -> "o" [] c = "Y" -> "y" [] OTHER -> c

\* The literal lit matches at index p; fold is re.IGNORECASE.
MatchLit(s, p, lit, fold) ==
    /\ p >= 0
    /\ p + Len(lit) <= Len(s)
    /\ \A k \in 1..Len(lit) :
          IF fold THEN Lower(s[p + k]) = Lower(lit[k]) ELSE s[p + k] = lit[k]

\* The first index >= from at which lit matches, or -1.
FindLit(s, from, lit, fold) ==
    LET hits == {p \in from..(Len(s) - Len(lit)) : MatchLit(s, p, lit, fold)}
    IN  IF hits = {} THEN -1 ELSE CHOOSE p \in hits : \A q \in hits : p <= q

COMMENT_OPEN == <<"<", "!", "-", "-">>
COMMENT_CLOSE == <<"-", "-", ">">>
COND_OPEN == <<"[", "i", "f">>

Match(pat, s, p) ==
    CASE pat = "empty" ->                                   \* r''
           0
      [] pat = "ws" ->                                      \* r'\s+'
           IF SpaceRun(s, p) >= 1 THEN SpaceRun(s, p) ELSE -1
      [] pat = "gt_ws_lt" ->                                \* r'>\s+<'
           IF At(s, p) = ">" /\ SpaceRun(s, p + 1) >= 1
                             /\ At(s, p + 1 + SpaceRun(s, p + 1)) = "<"
           THEN SpaceRun(s, p + 1) + 2 ELSE -1
      [] pat = "eq" ->                                      \* r'\s*=\s*'
           IF At(s, p + SpaceRun(s, p)) = "="
           THEN SpaceRun(s, p) + 1 + SpaceRun(s, p + SpaceRun(s, p) + 1) ELSE -1
      [] pat = "ws_gt" ->                                   \* r'\s+>'
           IF SpaceRun(s, p) >= 1 /\ At(s, p + SpaceRun(s, p)) = ">"
           THEN SpaceRun(s, p) + 1 ELSE -1
      [] pat = "lt_ws" ->                                   \* r'<\s+'
           IF At(s, p) = "<" /\ SpaceRun(s, p + 1) >= 1
           THEN 1 + SpaceRun(s, p + 1) ELSE -1
      [] pat = "semi_ws" ->                                 \* r';\s+'
           IF At(s, p) = ";" /\ SpaceRun(s, p + 1) >= 1
           THEN 1 + SpaceRun(s, p + 1) ELSE -1
      [] pat = "comma_ws" ->                                \* r',\s+'
           IF At(s, p) = "," /\ SpaceRun(s, p + 1) >= 1
           THEN 1 + SpaceRun(s, p + 1) ELSE -1
      [] pat = "comment" ->                      \* r'<!--(?!\[if).*?-->', DOTALL
           IF /\ MatchLit(s, p, COMMENT_OPEN, FALSE)
              /\ ~MatchLit(s, p + 4, COND_OPEN, FALSE)
              /\ FindLit(s, p + 4, COMMENT_CLOSE, FALSE) # -1
           THEN FindLit(s, p + 4, COMMENT_CLOSE, FALSE) + 3 - p ELSE -1

\* The first index >= p at which pat matches, or -1.
NextMatch(pat, s, p) ==
    LET hits == {q \in p..Len(s) : Match(pat, s, q) >= 0}
    IN  IF hits = {} THEN -1 ELSE CHOOSE q \in hits : \A r \in hits : q <= r

\* re.sub(pat, repl, s) from index p on, for a pattern that matches no empty
\* text: matches are taken left to right and do not overlap.
RECURSIVE ReSubFrom(_, _, _, _)
ReSubFrom(pat, repl, s, p) ==
    LET q == NextMatch(pat, s, p)
    IN  IF q = -1 THEN Slice(s, p, Len(s))
        ELSE Slice(s, p, q) \o repl \o ReSubFrom(pat, repl, s, q + Match(pat, s, q))

\* re.sub(r'', repl, s): the empty pattern matches before every character and
\* at the end, so repl is put at each of these places.
ReSubEmpty(repl, s) ==
    LET w == Len(repl) + 1
    IN  [k \in 1..(Len(s) * w + Len(repl)) |->
            IF (k - 1) % w < Len(repl) THEN repl[((k - 1) % w) + 1]
            ELSE s[((k - 1) \div w) + 1]]

ReSub(pat, repl, s) ==
    IF pat = "empty" THEN ReSubEmpty(repl, s) ELSE ReSubFrom(pat, repl, s, 0)

\* str.replace(old, new) for a non-empty old: every occurrence, left to right.
RECURSIVE StrReplace(_, _, _)
StrReplace(s, old, new) ==
    LET p == FindLit(s, 0, old, FALSE)
    IN  IF p = -1 THEN s
        ELSE Slice(s, 0, p) \o new \o StrReplace(Slice(s, p + Len(old), Len(s)), old, new)

----------------------------------------------------------------------------
(* split_line_safely *)

\* in_quote and quote_char after the quote handling of one character.
NextQuoteState(c, inq, qc) ==
    IF c \in {"\"", "'"}
    THEN IF ~inq THEN <<TRUE, c>>
         ELSE IF c = qc THEN <<FALSE, qc>>
         ELSE <<inq, qc>>
    ELSE <<inq, qc>>

\* last_safe_split_index after the `>` test of one character at index idx.
NextSafeIndex(c, inq, idx, last) ==
    IF c = ">" /\ ~inq THEN idx + 1 ELSE last

ChunkBytes(l, start, idx) == ByteLen(Slice(l, start, idx + 1))

\* A mutant of SafeSegment: the segment stops one character early.
SafeSegmentShort(l, start, safe) == Slice(l, start, safe - 1)

SafeSegment(l, start, safe) == Slice(l, start, safe)

ForcedSegment(l, start, idx) == Slice(l, start, idx)

Remainder(l, start) ==
    IF start < Len(l) THEN <<Slice(l, start, Len(l))>> ELSE <<>>

\* The call: the early return, or the locals as the loop finds them.
SplitEnter ==
    /\ pc = "split_call"
    /\ IF ByteLen(line) <= max_bytes
       THEN /\ result_lines' = <<line>>
            /\ pc' = "split_return"
       ELSE /\ result_lines' = <<>>
            /\ pc' = "split_loop"
    /\ current_start' = 0
    /\ i' = 0
    /\ in_quote' = FALSE
    /\ quote_char' = ""
    /\ last_safe_split_index' = -1
    /\ UNCHANGED <<mode, html, max_bytes, original_lines, processed_lines, line,
                   result, pass, prev_result, step>>

\* One iteration of the while loop.
ScanStep ==
    /\ pc = "split_loop"
    /\ i < Len(line)
    /\ Len(result_lines) < MaxSegs
    /\ LET c    == line[i + 1]
           q    == NextQuoteState(c, in_quote, quote_char)
           safe == NextSafeIndex(c, q[1], i, last_safe_split_index)
       IN  /\ in_quote' = q[1]
           /\ quote_char' = q[2]
           /\ IF ChunkBytes(line, current_start, i) > max_bytes
              THEN /\ IF safe > current_start
                      THEN /\ result_lines' =
                                Append(result_lines, SafeSegment(line, current_start, safe))
                           /\ current_start' = safe
                           /\ i' = (safe - 1) + 1
                      ELSE /\ result_lines' =
                                Append(result_lines, ForcedSegment(line, current_start, i))
                           /\ current_start' = i
                           /\ i' = (i - 1) + 1
                   /\ last_safe_split_index' = -1
              ELSE /\ last_safe_split_index' = safe
                   /\ i' = i + 1
                   /\ UNCHANGED <<result_lines, current_start>>
    /\ UNCHANGED <<mode, pc, html, max_bytes, original_lines, processed_lines, line,
                   result, pass, prev_result, step>>

\* The loop's exit: the remainder is appended and the list returned.
SplitExit ==
    /\ pc = "split_loop"
    /\ ~(i < Len(line))
    /\ result_lines' = result_lines \o Remainder(line, current_start)
    /\ pc' = "split_return"
    /\ UNCHANGED <<mode, html, max_bytes, original_lines, processed_lines, line,
                   current_start, i, in_quote, quote_char, last_safe_split_index,
                   result, pass, prev_result, step>>

----------------------------------------------------------------------------
(* insert_line_breaks_for_activecore *)

FitsBudget(l, budget) == ByteLen(l) <= budget

\* A mutant of AppendLine: a line within the budget is packed onto the previous one.
AppendPacked(lines, l) ==
    IF lines = <<>> THEN <<l>>
    ELSE SubSeq(lines, 1, Len(lines) - 1) \o <<lines[Len(lines)] \o l>>

\* processed_lines.append(line): a line within the budget is kept as a line of its own.
AppendLine(lines, l) == Append(lines, l)

WrapEnter ==
    /\ pc = "wrap_call"
    /\ original_lines' = SplitOn(html, NL)
    /\ processed_lines' = <<>>
    /\ pc' = "wrap_loop"
    /\ UNCHANGED <<mode, html, max_bytes, result, pass, prev_result, step>>
    /\ UNCHANGED splitVars

\* One iteration of the for loop, up to the call of split_line_safely.
WrapLine ==
    /\ pc = "wrap_loop"
    /\ original_lines # <<>>
    /\ LET l == RStrip(Head(original_lines))
       IN  /\ original_lines' = Tail(original_lines)
           /\ IF l = <<>>
              THEN UNCHANGED <<pc, processed_lines, line>>
              ELSE IF FitsBudget(l, max_bytes)
              THEN /\ processed_lines' = AppendLine(processed_lines, l)
                   /\ UNCHANGED <<pc, line>>
              ELSE /\ line' = l
                   /\ pc' = "split_call"
                   /\ UNCHANGED processed_lines
    /\ UNCHANGED <<mode, html, max_bytes, current_start, i, in_quote, quote_char,
                   last_safe_split_index, result_lines, result, pass, prev_result, step>>

\* split_line_safely has returned to the for loop: processed_lines.extend(splitted).
WrapExtend ==
    /\ pc = "split_return"
    /\ mode = "wrap"
    /\ processed_lines' = processed_lines \o result_lines
    /\ pc' = "wrap_loop"
    /\ UNCHANGED <<mode, html, max_bytes, original_lines, result, pass, prev_result, step>>
    /\ UNCHANGED splitVars

WrapReturn ==
    /\ pc = "wrap_loop"
    /\ original_lines = <<>>
    /\ result' = JoinWith(processed_lines, NL)
    /\ pc' = "done"
    /\ UNCHANGED <<mode, html, max_bytes, original_lines, processed_lines, pass,
                   prev_result, step>>
    /\ UNCHANGED splitVars

\* The caller wraps the text it got back once more, with the same budget.
Rewrap ==
    /\ mode = "wrap"
    /\ pc = "done"
    /\ pass = 1
    /\ prev_result' = result
    /\ html' = result
    /\ pass' = 2
    /\ pc' = "wrap_call"
    /\ UNCHANGED <<mode, max_bytes, original_lines, processed_lines, result, step>>
    /\ UNCHANGED splitVars

\* check_line_byte_limits: the 1-based numbers of the lines over the budget.
CheckLineByteLimits(text, budget) ==
    LET lines == SplitOn(text, NL)
    IN  {n \in 1..Len(lines) : ByteLen(lines[n]) > budget}

----------------------------------------------------------------------------
(* compress_complete *)

\* The pattern of the k-th re.sub statement of compress_complete.
CompletePattern(k) ==
    CASE k = 1 -> "empty"    [] k = 2 -> "ws"      [] k = 3 -> "gt_ws_lt"
      [] k = 4 -> "eq"       [] k = 5 -> "ws_gt"   [] k = 6 -> "lt_ws"
      [] k = 7 -> "semi_ws"  [] k = 8 -> "comma_ws"

\* A mutant of CompleteReplacement: `=` is written with a space on each side.
CompleteReplacementPadded(k) ==
    CASE k = 1 -> <<>>       [] k = 2 -> <<" ">>   [] k = 3 -> <<">", "<">>
      [] k = 4 -> <<" ", "=", " ">> [] k = 5 -> <<">">> [] k = 6 -> <<"<">>
      [] k = 7 -> <<";">>    [] k = 8 -> <<",">>

\* The replacement of the k-th re.sub statement of compress_complete.
CompleteReplacement(k) ==
    CASE k = 1 -> <<>>       [] k = 2 -> <<" ">>   [] k = 3 -> <<">", "<">>
      [] k = 4 -> <<"=">>    [] k = 5 -> <<">">>   [] k = 6 -> <<"<">>
      [] k = 7 -> <<";">>    [] k = 8 -> <<",">>

CompleteStatements == 8

\* result = html
CompleteEnter ==
    /\ pc = "complete_call"
    /\ result' = html
    /\ step' = 0
    /\ pc' = "complete_body"
    /\ UNCHANGED <<mode, html, max_bytes, original_lines, processed_lines, pass,
                   prev_result>>
    /\ UNCHANGED splitVars

\* The next result = re.sub(...) statement.
CompleteRewrite ==
    /\ pc = "complete_body"
    /\ step < CompleteStatements
    /\ result' = ReSub(CompletePattern(step + 1), CompleteReplacement(step + 1), result)
    /\ step' = step + 1
    /\ UNCHANGED <<mode, pc, html, max_bytes, original_lines, processed_lines, pass,
                   prev_result>>
    /\ UNCHANGED splitVars

\* return result.strip()
CompleteReturn ==
    /\ pc = "complete_body"
    /\ step = CompleteStatements
    /\ result' = Strip(result)
    /\ pc' = "done"
    /\ UNCHANGED <<mode, html, max_bytes, original_lines, processed_lines, pass,
                   prev_result, step>>
    /\ UNCHANGED splitVars

----------------------------------------------------------------------------
(* compress_header_only *)

HEAD_OPEN == <<"<", "h", "e", "a", "d", ">">>
HEAD_CLOSE == <<"<", "/", "h", "e", "a", "d", ">">>

\* re.search(open + '.*?' + close, s, DOTALL | IGNORECASE) for two literals:
\* <<start, end>> of the leftmost match, the lazy .*? ending at the first
\* close that follows the open; <<-1, -1>> when nothing matches.
SearchSpan(s, open, close) ==
    LET starts == {a \in 0..Len(s) :
                     /\ MatchLit(s, a, open, TRUE)
                     /\ FindLit(s, a + Len(open), close, TRUE) # -1}
    IN  IF starts = {} THEN <<-1, -1>>
        ELSE LET a == CHOOSE x \in starts : \A y \in starts : x <= y
             IN  <<a, FindLit(s, a + Len(open), close, TRUE) + Len(close)>>

HeadMatch(s) == SearchSpan(s, HEAD_OPEN, HEAD_CLOSE)

CompressHeaderOnly(s) ==
    LET m == HeadMatch(s)
    IN  IF m[1] = -1 THEN s
        ELSE LET head_content == Slice(s, m[1] + Len(HEAD_OPEN), m[2] - Len(HEAD_CLOSE))
                 collapsed == ReSub("ws", <<" ">>, head_content)
                 joined == ReSub("gt_ws_lt", <<">", "<">>, collapsed)
                 compressed_head == Strip(joined)
             IN  StrReplace(s, Slice(s, m[1], m[2]),
                            HEAD_OPEN \o compressed_head \o HEAD_CLOSE)

HeaderOnly ==
    /\ pc = "header_call"
    /\ result' = CompressHeaderOnly(html)
    /\ pc' = "done"
    /\ UNCHANGED <<mode, html, max_bytes, original_lines, processed_lines, pass,
                   prev_result, step>>
    /\ UNCHANGED splitVars

----------------------------------------------------------------------------
(* compress_preserve_indent and compress_hybrid *)

IsBlank(l) == Strip(l) = <<>>

Spaces(n) == [k \in 1..n |-> " "]

CompressPreserveIndent(s) ==
    LET lines == SplitOn(s, NL)
        indent(l) == Len(l) - Len(LStrip(l))
        levels == {indent(lines[n]) : n \in {k \in 1..Len(lines) : ~IsBlank(lines[k])}}
        min_indent == IF levels = {} THEN 0
                      ELSE CHOOSE x \in levels : \A y \in levels : x <= y
        kept == SelectSeq(lines, LAMBDA l : ~IsBlank(l))
        new_line(l) == Spaces(((indent(l) - min_indent) \div 2) * 2) \o LStrip(l)
    IN  JoinWith([n \in 1..Len(kept) |-> new_line(kept[n])], NL)

BODY_OPEN == <<"<", "b", "o", "d", "y">>
BODY_CLOSE == <<"<", "/", "b", "o", "d", "y", ">">>

\* re.search(r'(<body.*?>.*?</body>)', s, DOTALL | IGNORECASE): the leftmost
\* <body that has a `>` after it and a </body> after that `>`; each lazy .*?
\* stops at the first place from which the rest still matches.
BodyMatch(s) ==
    LET close(a) == LET gt == FindLit(s, a + Len(BODY_OPEN), <<">">>, TRUE)
                    IN  IF gt = -1 THEN -1 ELSE FindLit(s, gt + 1, BODY_CLOSE, TRUE)
        starts == {a \in 0..Len(s) : MatchLit(s, a, BODY_OPEN, TRUE) /\ close(a) # -1}
    IN  IF starts = {} THEN <<-1, -1>>
        ELSE LET a == CHOOSE x \in starts : \A y \in starts : x <= y
             IN  <<a, close(a) + Len(BODY_CLOSE)>>

\* before_head, head_content, between, body_content, after_body as extracted.
HybridParts(s) ==
    LET h == HeadMatch(s)
        b == BodyMatch(s)
    IN  [before_head  |-> IF h[1] # -1 THEN Slice(s, 0, h[1]) ELSE <<>>,
         head_content |-> IF h[1] # -1 THEN Slice(s, h[1], h[2]) ELSE <<>>,
         between      |-> IF h[1] # -1 /\ b[1] # -1 THEN Slice(s, h[2], b[1]) ELSE <<>>,
         body_content |-> IF b[1] # -1 THEN Slice(s, b[1], b[2]) ELSE <<>>,
         after_body   |-> IF b[1] # -1 THEN Slice(s, b[2], Len(s)) ELSE <<>>]

HybridHead(head_content) ==
    IF head_content = <<>> THEN <<>>
    ELSE Strip(ReSub("eq", <<"=">>,
               ReSub("gt_ws_lt", <<">", "<">>,
                   ReSub("ws", <<" ">>,
                       ReSub("comment", <<>>, head_content)))))

HybridBody(body_content) ==
    IF body_content = <<>> THEN <<>> ELSE CompressPreserveIndent(body_content)

\* result_parts: the five parts as they are appended, empty ones left out.
HybridResultParts(s) ==
    LET parts == HybridParts(s)
    IN  SelectSeq(<<Strip(parts.before_head), HybridHead(parts.head_content),
                    Strip(parts.between), HybridBody(parts.body_content),
                    Strip(parts.after_body)>>,
                  LAMBDA part : part # <<>>)

CompressHybrid(s) ==
    IF HeadMatch(s)[1] = -1 /\ BodyMatch(s)[1] = -1
    THEN CompressPreserveIndent(s)
    ELSE JoinWith(HybridResultParts(s), NL)

Hybrid ==
    /\ pc = "hybrid_call"
    /\ result' = CompressHybrid(html)
    /\ pc' = "done"
    /\ UNCHANGED <<mode, html, max_bytes, original_lines, processed_lines, pass,
                   prev_result, step>>
    /\ UNCHANGED splitVars

----------------------------------------------------------------------------
(* Specifications of the wrapper. *)

SplitAlphabet == {"a", ">", "\"", "'", " ", WIDE}

WrapAlphabet == {"a", ">", "\"", " ", WIDE, NL}

Budgets == (0 - 1)..MaxBudget

IdleSplit ==
    /\ line = <<>>
    /\ current_start = 0
    /\ i = 0
    /\ in_quote = FALSE
    /\ quote_char = ""
    /\ last_safe_split_index = -1
    /\ result_lines = <<>>

\* A direct call split_line_safely(line, max_bytes).
InitSplit ==
    /\ mode = "split"
    /\ pc = "split_call"
    /\ line \in TextsOver(SplitAlphabet, MaxLineLen)
    /\ max_bytes \in Budgets
    /\ html = <<>>
    /\ original_lines = <<>>
    /\ processed_lines = <<>>
    /\ current_start = 0
    /\ i = 0
    /\ in_quote = FALSE
    /\ quote_char = ""
    /\ last_safe_split_index = -1
    /\ result_lines = <<>>
    /\ result = <<>>
    /\ pass = 0
    /\ prev_result = <<>>
    /\ step = 0

NextSplit == SplitEnter \/ ScanStep \/ SplitExit

SpecSplit == InitSplit /\ [][NextSplit]_vars

\* A call insert_line_breaks_for_activecore(html, max_bytes).
InitWrap ==
    /\ mode = "wrap"
    /\ pc = "wrap_call"
    /\ html \in TextsOver(WrapAlphabet, MaxDocLen)
    /\ max_bytes \in Budgets
    /\ original_lines = <<>>
    /\ processed_lines = <<>>
    /\ IdleSplit
    /\ result = <<>>
    /\ pass = 1
    /\ prev_result = <<>>
    /\ step = 0

NextWrap ==
    \/ WrapEnter
    \/ WrapLine
    \/ SplitEnter
    \/ ScanStep
    \/ SplitExit
    \/ WrapExtend
    \/ WrapReturn
    \/ Rewrap

SpecWrap == InitWrap /\ [][NextWrap]_vars

----------------------------------------------------------------------------
(* Specifications of the compression modes. *)

MaxCompleteLen == 4
MaxHeaderPieces == 6
MaxHybridPieces == 4

IdleWrap ==
    /\ max_bytes = 800
    /\ original_lines = <<>>
    /\ processed_lines = <<>>
    /\ pass = 0
    /\ prev_result = <<>>

\* <head><title>A</title></head><body><p>Hi</p></body>
Scenario1 ==
    <<"<", "h", "e", "a", "d", ">", "<", "t", "i", "t", "l", "e", ">", "A",
      "<", "/", "t", "i", "t", "l", "e", ">", "<", "/", "h", "e", "a", "d",
      ">", "<", "b", "o", "d", "y", ">", "<", "p", ">", "H", "i", "<", "/",
      "p", ">", "<", "/", "b", "o", "d", "y", ">">>

CompleteAlphabet == {"<", ">", "=", ";", ",", " ", NL, "a", WIDE}

\* A call compress_complete(html).
InitComplete ==
    /\ mode = "complete"
    /\ pc = "complete_call"
    /\ html \in TextsOver(CompleteAlphabet, MaxCompleteLen) \cup {Scenario1}
    /\ result = <<>>
    /\ step = 0
    /\ IdleWrap
    /\ IdleSplit

NextComplete == CompleteEnter \/ CompleteRewrite \/ CompleteReturn

SpecComplete == InitComplete /\ [][NextComplete]_vars

\* Documents put together from whole tags and single characters.
TextsOfPieces(pieces, n) == {Concat(ps) : ps \in TextsOver(pieces, n)}

HeaderPieces ==
    {HEAD_OPEN, HEAD_CLOSE, <<"<", "H", "E", "A", "D", ">">>, <<" ">>, <<"x">>}

\* A call compress_header_only(html).
InitHeader ==
    /\ mode = "header_only"
    /\ pc = "header_call"
    /\ html \in TextsOfPieces(HeaderPieces, MaxHeaderPieces)
    /\ result = <<>>
    /\ step = 0
    /\ IdleWrap
    /\ IdleSplit

NextHeader == HeaderOnly

SpecHeader == InitHeader /\ [][NextHeader]_vars

HybridPieces ==
    {HEAD_OPEN, HEAD_CLOSE, BODY_OPEN \o <<">">>, BODY_CLOSE, <<" ">>, <<"x">>, <<NL>>}

\* Documents with a comment, a conditional comment, an attribute and indentation.
HybridScenarios ==
    {HEAD_OPEN \o COMMENT_OPEN \o <<"x">> \o COMMENT_CLOSE \o <<" ", "x">> \o HEAD_CLOSE,
     HEAD_OPEN \o COMMENT_OPEN \o COND_OPEN \o COMMENT_CLOSE \o HEAD_CLOSE,
     <<"x">> \o HEAD_OPEN \o <<"a", " ", "=", " ", "x">> \o HEAD_CLOSE \o <<NL>>
         \o BODY_OPEN \o <<" ", "a", "=", "x", ">", NL, " ", " ", " ", "x", NL>>
         \o BODY_CLOSE \o <<"x">>}

\* A call compress_hybrid(html).
InitHybrid ==
    /\ mode = "hybrid"
    /\ pc = "hybrid_call"
    /\ html \in TextsOfPieces(HybridPieces, MaxHybridPieces) \cup HybridScenarios
    /\ result = <<>>
    /\ step = 0
    /\ IdleWrap
    /\ IdleSplit

NextHybrid == Hybrid

SpecHybrid == InitHybrid /\ [][NextHybrid]_vars

----------------------------------------------------------------------------
(* Properties of the wrapper. *)

\* The lines that join to text; the empty text is the join of no line.
OutputLines(text) == IF text = <<>> THEN <<>> ELSE SplitOn(text, NL)

IsSubstring(a, b) ==
    \E p \in 0..(Len(b) - Len(a)) : Slice(b, p, p + Len(a)) = a

NonEmpty(s) == s # <<>>

\* The input's lines with trailing whitespace removed, whitespace-only lines left out.
TrimmedLines(text) ==
    LET raw == SplitOn(text, NL)
        cut(l) == IF \A k \in 1..Len(l) : IsSpace(l[k]) THEN <<>>
                  ELSE SubSeq(l, 1, CHOOSE k \in 1..Len(l) :
                           ~IsSpace(l[k]) /\ \A j \in (k + 1)..Len(l) : IsSpace(l[j]))
    IN  SelectSeq([n \in 1..Len(raw) |-> cut(raw[n])], NonEmpty)

\* outs is ins line by line, in order: a line within the budget is one output
\* line equal to it, any other line is a run of output lines each a substring
\* of it, and no output line belongs to two input lines.
RECURSIVE Covers(_, _, _)
Covers(ins, outs, budget) ==
    IF ins = <<>> THEN outs = <<>>
    ELSE \E n \in 0..Len(outs) :
            /\ ByteLen(Head(ins)) <= budget => (n = 1 /\ outs[1] = Head(ins))
            /\ \A k \in 1..n : IsSubstring(outs[k], Head(ins))
            /\ Covers(Tail(ins), SubSeq(outs, n + 1, Len(outs)), budget)

\* C1: with a budget B > 0, every line check_line_byte_limits reports as over
\* the budget in wrap's output is a line of exactly one code point.
C1_LinesWithinBudget ==
    (pc = "done" /\ max_bytes > 0) =>
        \A n \in CheckLineByteLimits(result, max_bytes) :
            Len(SplitOn(result, NL)[n]) = 1

\* The in_quote flag after the first n characters of l, scanned from the start.
RECURSIVE QuotedAfter(_, _)
QuotedAfter(l, n) ==
    IF n = 0 THEN <<FALSE, "">>
    ELSE LET before == QuotedAfter(l, n - 1)
         IN  NextQuoteState(l[n], before[1], before[2])

\* The loop is about to cut at a recorded split index (not a forced cut).
SafeCutPending ==
    /\ pc = "split_loop"
    /\ i < Len(line)
    /\ ChunkBytes(line, current_start, i) > max_bytes
    /\ NextSafeIndex(line[i + 1],
                     NextQuoteState(line[i + 1], in_quote, quote_char)[1],
                     i, last_safe_split_index) > current_start

PendingCut ==
    NextSafeIndex(line[i + 1],
                  NextQuoteState(line[i + 1], in_quote, quote_char)[1],
                  i, last_safe_split_index)

\* C2: every cut of split_line_safely that is not forced falls right after a
\* `>` that is outside any quoted value when the whole line is scanned from
\* its start.
C2_QuoteSafe ==
    (SafeCutPending /\ max_bytes > 0) =>
        /\ line[PendingCut] = ">"
        /\ ~QuotedAfter(line, PendingCut)[1]

\* C3: with a budget B > 0 the scan loop always advances: it never emits an
\* empty segment (an empty segment is a cut at the segment's own start, after
\* which the same character is scanned again in the same state).
C3_NoEmptySegment ==
    max_bytes > 0 => \A n \in 1..Len(result_lines) : result_lines[n] # <<>>

\* C4: a budget <= 0 is rejected before any line is processed: the call never
\* gets past its entry.
C4_InvalidBudgetRejected ==
    max_bytes <= 0 => pc = "wrap_call"

C6_Idempotent ==
    (pc = "done" /\ pass = 2 /\ max_bytes > 0) => result = prev_result

\* C7: when split_line_safely returns, its segments concatenated in order are
\* the input line.
C7_Reconstruction ==
    pc = "split_return" => Concat(result_lines) = line

C7_Witness ==
    /\ pc = "split_return"
    /\ max_bytes > 0
    /\ \A k \in 1..Len(line) : line[k] \notin {"\"", "'"}
    /\ Len(result_lines) >= 3
    /\ \E n \in 1..(Len(result_lines) - 1) :
          result_lines[n][Len(result_lines[n])] = ">"
    /\ \E n \in 1..(Len(result_lines) - 1) :
          result_lines[n][Len(result_lines[n])] # ">"

\* C8: compress_header_only changes only the first <head>...</head> span: the
\* text before it and the text after it come back as they were, and a document
\* without such a span comes back unchanged.
C8_OnlyFirstHeadChanges ==
    pc = "done" =>
        LET m    == HeadMatch(html)
            pre  == Slice(html, 0, m[1])
            post == Slice(html, m[2], Len(html))
        IN  IF m[1] = -1 THEN result = html
            ELSE /\ Len(result) >= Len(pre) + Len(post)
                 /\ Slice(result, 0, Len(pre)) = pre
                 /\ Slice(result, Len(result) - Len(post), Len(result)) = post

\* C9: when <head> or <body> is found, the five parts of compress_hybrid cover
\* the whole input in order and the output is the non-empty ones, processed,
\* one per line; when neither is found the output is compress_preserve_indent
\* of the whole document.
C9_NoMaterialLost ==
    pc = "done" =>
        IF HeadMatch(html)[1] = -1 /\ BodyMatch(html)[1] = -1
        THEN result = CompressPreserveIndent(html)
        ELSE LET parts == HybridParts(html)
             IN  /\ parts.before_head \o parts.head_content \o parts.between
                        \o parts.body_content \o parts.after_body = html
                 /\ result = JoinWith(HybridResultParts(html), NL)

\* C10: no statement of compress_complete makes its result longer in bytes, so
\* the returned text is never longer than the document, and Scenario1 is
\* returned unchanged.
C10_NeverGrows ==
    [][pc = "complete_body" =>
          /\ ByteLen(result') <= ByteLen(result)
          /\ ByteLen(result') <= ByteLen(html)
          /\ (pc' = "done" /\ html = Scenario1) => result' = html]_vars

C10_Witness ==
    /\ pc = "done"
    /\ mode = "complete"
    /\ ByteLen(result) + 2 <= ByteLen(html)
    /\ \E k \in 1..Len(html) : html[k] = "="
    /\ \E k \in 1..Len(result) : result[k] = "="

====
